---------------------------- MODULE Spec2Model ----------------------------
(***************************************************************************)
(* Model of scripts/bible_keyring.py: the Blender script that builds the   *)
(* parts of a keyring (body, spine, loop, text, page lines) inside the     *)
(* collection "BibleKeyring", folds them into one mesh with boolean        *)
(* modifiers (join_all_parts) and finishes the result (main).              *)
(*                                                                         *)
(* The scene is modelled as far as the script reads and writes it:         *)
(*   - bpy.data.objects: a map from object identities to records,          *)
(*   - bpy.data.collections: a map from collection names to the ordered    *)
(*     list of objects linked to each,                                     *)
(*   - the active object, the scene's length unit.                         *)
(* A datablock name is a pair <<base, n>>: n = 0 is the plain name and     *)
(* n > 0 the name with Blender's numeric suffix (".001", ".002", ...),     *)
(* which Blender appends when the plain name is taken.                     *)
(* Geometry is a set of part tags; lengths are integers in micrometres.    *)
(***************************************************************************)
EXTENDS Integers, Sequences, FiniteSets

VARIABLES
    objs,      \* bpy.data.objects: identity -> [name, type, geom, mods, mat, origin, scaled]
    colls,     \* bpy.data.collections: name -> sequence of linked object identities
    active,    \* bpy.context.view_layer.objects.active (0: None)
    unit,      \* bpy.context.scene.unit_settings.length_unit
    cfg,       \* the CONFIGURATION block as edited by the user: [count, depth]
    entry,     \* what is run: "main": the script (lines 404-405, main()), or
               \* "join": the function join_all_parts(col) alone (line 275), on a
               \* collection of the scene, up to its return
    pc,        \* position in the running function
    col,       \* main's / join_all_parts' collection reference (a collection name)
    main,      \* join_all_parts: the accumulating base (0: None)
    others,    \* join_all_parts: the operands, in order
    i,         \* join_all_parts: index of the current operand in others
    bool_mod,  \* join_all_parts: name of the modifier of the current step
    before,    \* the base (geometry, modifiers) when the current step began
    base0,     \* geometry of the base when the loop began
    steps,     \* trace of the modifier_apply calls: [operand, name, geom, ok]
    log,       \* the warnings printed by join_all_parts, in order
    ret,       \* value returned by join_all_parts, then by main (0: None)
    pageY,     \* create_page_lines: [num, den] of each slab's y_pos, in order
    runs,      \* number of calls of main so far
    snap       \* contents of the collection when the first call of main returned

vars == << objs, colls, active, unit, cfg, entry, pc, col, main, others, i,
           bool_mod, before, base0, steps, log, ret, pageY, runs, snap >>

-----------------------------------------------------------------------------
(* Bounds of the model *)

\* Largest number of objects in the collection of the prior scene.
MaxPrior == 3
\* Slab counts below zero that are tried: -NegCounts .. -1.
NegCounts == 2
\* Small slab counts that are tried besides the configured one: 0 .. MaxSmallCount.
MaxSmallCount == 2
\* Number of calls of main in a row.
MaxRuns == 2
\* Largest numeric suffix of an object name in the prior scene.
MaxStraySuffix == 1

(* Program constants, lengths in micrometres *)
BOOK_DEPTH == 10000
COVER_THICKNESS == 1500
PAGE_LINE_COUNT == 12
PAGE_LINE_THICKNESS == 150

COLLECTION_NAME == "BibleKeyring"

None == 0
NoName == << "", 0 >>

Range(s) == { s[k] : k \in DOMAIN s }

-----------------------------------------------------------------------------
(* Blender's datablock services, as far as the script relies on them *)

\* Blender keeps datablock names unique: a taken name gets the first free
\* numeric suffix.
UniqueName(base, used) ==
    IF << base, 0 >> \notin used THEN << base, 0 >>
    ELSE << base, CHOOSE n \in 1..(Cardinality(used) + 1) :
                      /\ << base, n >> \notin used
                      /\ \A m \in 1..(n - 1) : << base, m >> \in used >>

ObjectNames(o) == { o[x].name : x \in DOMAIN o }

\* A new object's identity.
FreshId(o) == CHOOSE n \in 1..(Cardinality(DOMAIN o) + 1) :
                  /\ n \notin DOMAIN o
                  /\ \A m \in 1..(n - 1) : m \in DOMAIN o

NewObject(nm, ty, g) ==
    [name |-> nm, type |-> ty, geom |-> g, mods |-> << >>,
     mat |-> 0, origin |-> "AS_BUILT", scaled |-> FALSE]

\* bpy.data.objects.remove(obj, do_unlink=True) for every obj of gone.
RemoveObjects(o, gone) == [x \in (DOMAIN o) \ gone |-> o[x]]

Unlink(cs, gone) ==
    [c \in DOMAIN cs |-> SelectSeq(cs[c], LAMBDA x : x \notin gone)]

\* obj.name = base
Rename(o, id, base) ==
    [o EXCEPT ![id].name =
        UniqueName(base, ObjectNames(o) \ { o[id].name })]

\* bpy.ops.mesh.primitive_*_add, obj.name = base, "Move to collection".
AddPart(o, base, g) ==
    LET id == FreshId(o)
    IN  [x \in (DOMAIN o) \cup {id} |->
            IF x = id THEN NewObject(UniqueName(base, ObjectNames(o)), "MESH", g)
                      ELSE o[x]]

Link(cs, c, id) == [cs EXCEPT ![c] = Append(@, id)]


-----------------------------------------------------------------------------
(* Geometry: a solid is the set of the part tags it is made of *)

Union(a, b) == a \cup b
Difference(a, b) == a \ b

BodyGeom == { "body" }
SpineGeom == { "spine" }
LoopOuterGeom == { "ring", "bore" }
LoopInnerGeom == { "bore", "plug" }
TextGeom == { "text" }
PagesGeom == { "pages" }

-----------------------------------------------------------------------------
(* Modifiers *)

\* f"Union_{other.name}", made unique on the object's modifier stack.
ModNames(mods) == { mods[k].name : k \in DOMAIN mods }

UnionModName(mods, otherName) ==
    LET taken == { nm[3] : nm \in { m \in ModNames(mods) :
                                      m[1] = "Union_" /\ m[2] = otherName } }
    IN  << "Union_", otherName,
           IF 0 \notin taken THEN 0
           ELSE CHOOSE n \in 1..(Cardinality(taken) + 1) :
                    /\ n \notin taken
                    /\ \A m \in 1..(n - 1) : m \in taken >>

\* main.modifiers.new(name=..., type='BOOLEAN'); operation, object, solver.
NewBoolean(mods, nm, operand) ==
    Append(mods, [name |-> nm, operation |-> "UNION", object |-> operand])

\* main.modifiers.remove(bool_mod), and what a successful apply does to the stack.
WithoutModifier(mods, nm) == SelectSeq(mods, LAMBDA m : m.name # nm)

ModifierNamed(mods, nm) == CHOOSE m \in Range(mods) : m.name = nm

-----------------------------------------------------------------------------
(* The scenes the script may be started in *)

Bases == { "BookBody", "BibleKeyring", "Cube", "Cylinder" }
\* Names of the objects that may lie outside the collection: "BookBody",
\* "BibleKeyring", "BibleKeyring.001", "BibleKeyring.002", ...
StrayOrder ==
    << << "BookBody", 0 >> >> \o [k \in 1..(MaxStraySuffix + 1) |-> << "BibleKeyring", k - 1 >>]
StrayNames == Range(StrayOrder)
Kinds == { "solid", "empty_mesh", "pending", "non_mesh" }
Units == { "METERS", "MILLIMETERS" }
Counts == ((0 - NegCounts)..MaxSmallCount) \cup { PAGE_LINE_COUNT }
Depths == { BOOK_DEPTH, 0 }

\* A modifier left on an object by the user; its name is the one a union with
\* an operand called "Cube" would ask for.
StaleModifier ==
    [name |-> << "Union_", << "Cube", 0 >>, 0 >>, operation |-> "UNION", object |-> None]

PriorObject(base, kind) ==
    [name |-> << base, 0 >>,
     type |-> IF kind = "non_mesh" THEN "EMPTY" ELSE "MESH",
     geom |-> IF kind \in { "solid", "pending" } THEN { base } ELSE { },
     mods |-> IF kind = "pending" THEN << StaleModifier >> ELSE << >>,
     mat |-> 0, origin |-> "AS_BUILT", scaled |-> FALSE]

StrayObject(nm) == [PriorObject(nm[1], "solid") EXCEPT !.name = nm]

PriorContents ==
    { s \in UNION { [1..n -> Bases \X Kinds] : n \in 0..MaxPrior } :
        \A a, b \in DOMAIN s : a # b => s[a][1] # s[b][1] }

NoStep == [geom |-> { }, mods |-> << >>]
NoSnap == [taken |-> FALSE, contents |-> << >>]

\* The prior collection. main removes its objects before it reads one: there
\* they vary in name and type only.
ContentsFor(e, present) ==
    IF ~present THEN { << >> }
    ELSE IF e = "join" THEN PriorContents
    ELSE { s \in PriorContents : \A k \in DOMAIN s : s[k][2] \in { "solid", "non_mesh" } }

\* The objects outside the collection. Of their names only the plain ones
\* matter to join_all_parts' choice of the base.
StraysFor(e, content) ==
    { S \in SUBSET StrayNames :
        /\ \A k \in DOMAIN content : << content[k][1], 0 >> \notin S
        /\ e = "join" => \A nm \in S : nm[2] = 0 }

\* join_all_parts, called alone, reads neither the configuration nor the unit.
Init ==
    \E e \in { "main", "join" } :
    \E present \in (IF e = "join" THEN { TRUE } ELSE BOOLEAN) :
    \E content \in ContentsFor(e, present) :
    \E strays \in StraysFor(e, content) :
    \E c \in (IF e = "join" THEN { PAGE_LINE_COUNT } ELSE Counts),
       d \in (IF e = "join" THEN { BOOK_DEPTH } ELSE Depths),
       u \in (IF e = "join" THEN { "METERS" } ELSE Units) :
        LET stray == SelectSeq(StrayOrder, LAMBDA nm : nm \in strays)
            n == Len(content)
        IN  /\ objs = [x \in 1..(n + Len(stray)) |->
                         IF x <= n THEN PriorObject(content[x][1], content[x][2])
                                   ELSE StrayObject(stray[x - n])]
            /\ colls = IF present
                         THEN [x \in { << COLLECTION_NAME, 0 >> } |-> [k \in 1..n |-> k]]
                         ELSE [x \in { } |-> << >>]
            /\ active = None
            /\ unit = u
            /\ cfg = [count |-> c, depth |-> d]
            /\ entry = e
            /\ pc = IF e = "main" THEN "cleanup" ELSE "join"
            /\ col = IF e = "main" THEN NoName ELSE << COLLECTION_NAME, 0 >>
            /\ main = None
            /\ others = << >>
            /\ i = 0
            /\ bool_mod = NoName
            /\ before = NoStep
            /\ base0 = { }
            /\ steps = << >>
            /\ log = << >>
            /\ ret = None
            /\ pageY = << >>
            /\ runs = IF e = "main" THEN 1 ELSE 0
            /\ snap = NoSnap

joinVars == << main, others, i, bool_mod, before, base0, steps, log >>

-----------------------------------------------------------------------------
(* cleanup_existing, create_collection *)

\* for obj in list(col.objects)
StaleObjects(cs) == Range(cs[<< COLLECTION_NAME, 0 >>])

\* A cleanup that empties the collection and forgets to remove it.
RemainingCollections_All(cs) == DOMAIN cs

\* bpy.data.collections.remove(col)
RemainingCollections(cs) == (DOMAIN cs) \ { << COLLECTION_NAME, 0 >> }

CleanupExisting ==
    /\ pc = "cleanup"
    /\ IF << COLLECTION_NAME, 0 >> \in DOMAIN colls
         THEN LET gone == StaleObjects(colls)
              IN  /\ objs' = RemoveObjects(objs, gone)
                  /\ colls' = [x \in RemainingCollections(colls) |->
                                  SelectSeq(colls[x], LAMBDA y : y \notin gone)]
                  /\ active' = IF active \in gone THEN None ELSE active
         ELSE UNCHANGED << objs, colls, active >>
    /\ pc' = "create_collection"
    /\ UNCHANGED << unit, cfg, entry, col, joinVars, ret, pageY, runs, snap >>

CreateCollection ==
    /\ pc = "create_collection"
    /\ LET nm == UniqueName(COLLECTION_NAME, DOMAIN colls)
       IN  /\ colls' = [x \in (DOMAIN colls) \cup { nm } |->
                           IF x = nm THEN << >> ELSE colls[x]]
           /\ col' = nm
    /\ pc' = "body"
    /\ UNCHANGED << objs, active, unit, cfg, entry, joinVars, ret, pageY, runs, snap >>

-----------------------------------------------------------------------------
(* The builders *)

\* One builder that ends normally: the part is created, named and linked.
Built(base, g, next) ==
    /\ objs' = AddPart(objs, base, g)
    /\ colls' = Link(colls, col, FreshId(objs))
    /\ active' = FreshId(objs)
    /\ pc' = next

CreateBookBody ==
    /\ pc = "body"
    /\ Built("BookBody", BodyGeom, "spine")
    /\ UNCHANGED << unit, cfg, entry, col, joinVars, ret, pageY, runs, snap >>

\* bpy.ops raises RuntimeError when the context is wrong for the operator
\* (the first operator call of the run is primitive_cube_add).
OperatorRaises ==
    /\ pc = "body"
    /\ pc' = "raised"
    /\ UNCHANGED << objs, colls, active, unit, cfg, entry, col, joinVars, ret,
                    pageY, runs, snap >>

CreateSpine ==
    /\ pc = "spine"
    /\ Built("BookSpine", SpineGeom, "loop")
    /\ UNCHANGED << unit, cfg, entry, col, joinVars, ret, pageY, runs, snap >>

\* The hole is cut (modifier "LoopHole" applied) and the inner cylinder removed.
CreateCarabinerLoop ==
    /\ pc = "loop"
    /\ Built("LoopOuter", Difference(LoopOuterGeom, LoopInnerGeom), "text")
    /\ UNCHANGED << unit, cfg, entry, col, joinVars, ret, pageY, runs, snap >>

\* modifier_apply(modifier="LoopHole") raises: nothing catches it, the run ends
\* with both cylinders linked and the modifier still on the outer one.
LoopHoleRaises ==
    /\ pc = "loop"
    /\ LET outer == FreshId(objs)
           o1 == AddPart(objs, "LoopOuter", LoopOuterGeom)
           inner == FreshId(o1)
           o2 == AddPart(o1, "LoopInner", LoopInnerGeom)
       IN  /\ objs' = [o2 EXCEPT ![outer].mods =
                          << [name |-> << "LoopHole", NoName, 0 >>,
                              operation |-> "DIFFERENCE", object |-> inner] >>]
           /\ colls' = Link(Link(colls, col, outer), col, inner)
           /\ active' = outer
    /\ pc' = "raised"
    /\ UNCHANGED << unit, cfg, entry, col, joinVars, ret, pageY, runs, snap >>

CreateEmbossedText ==
    /\ pc = "text"
    /\ Built("EmbossedText", TextGeom, "pages")
    /\ UNCHANGED << unit, cfg, entry, col, joinVars, ret, pageY, runs, snap >>

\* y_pos of the slab with loop index k - 1, as a fraction num / den micrometres:
\*   inner_depth = BOOK_DEPTH - 2 * COVER_THICKNESS
\*   line_spacing = inner_depth / (PAGE_LINE_COUNT + 1)
\*   y_pos = -BOOK_DEPTH / 2 + COVER_THICKNESS + (i + 1) * line_spacing
InnerDepth(depth) == depth - 2 * COVER_THICKNESS

\* range() index used without the + 1.
PageLineY_ZeroBased(k, count, depth) ==
    [num |-> (COVER_THICKNESS - (depth \div 2)) * (count + 1) + (k - 1) * InnerDepth(depth),
     den |-> count + 1]

PageLineY(k, count, depth) ==
    [num |-> (COVER_THICKNESS - (depth \div 2)) * (count + 1) + k * InnerDepth(depth),
     den |-> count + 1]

\* range(PAGE_LINE_COUNT)
PageLineIndices(count) == 1..count

CreatePageLines ==
    /\ pc = "pages"
    /\ IF cfg.count + 1 = 0
         THEN \* ZeroDivisionError in line_spacing
              /\ pc' = "raised"
              /\ UNCHANGED << objs, colls, active, pageY >>
         ELSE IF PageLineIndices(cfg.count) = { }
           THEN \* page_objects is empty: return None
                /\ pc' = "join"
                /\ UNCHANGED << objs, colls, active, pageY >>
           ELSE /\ pageY' = [k \in PageLineIndices(cfg.count) |->
                                PageLineY(k, cfg.count, cfg.depth)]
                /\ Built("PageLines", PagesGeom, "join")
    /\ UNCHANGED << unit, cfg, entry, col, joinVars, ret, runs, snap >>

-----------------------------------------------------------------------------
(* join_all_parts *)

\* [obj for obj in collection.objects if obj.type == 'MESH']
MeshObjects(o, linked) == SelectSeq(linked, LAMBDA x : o[x].type = "MESH")

\* The main body: the object named "BookBody", else the first mesh object.
MainBody(o, mesh) ==
    IF \E k \in DOMAIN mesh : o[mesh[k]].name = << "BookBody", 0 >>
      THEN CHOOSE x \in Range(mesh) : o[x].name = << "BookBody", 0 >>
      ELSE mesh[1]

\* The operands: every mesh object but the main body, in the collection's order.
Operands(o, mesh) ==
    IF \E k \in DOMAIN mesh : o[mesh[k]].name = << "BookBody", 0 >>
      THEN SelectSeq(mesh, LAMBDA x : o[x].name # << "BookBody", 0 >>)
      ELSE Tail(mesh)

\* A test that lets a lone mesh object into the loop.
TooFew_OnlyEmpty(mesh) == Len(mesh) < 1

\* if len(mesh_objects) < 2
TooFew(mesh) == Len(mesh) < 2

\* join_all_parts returns: in main to line 374, final = join_all_parts(col),
\* and the finishing block follows; called alone, to its caller.
AfterJoin == IF entry = "main" THEN "finishing" ELSE "returned"

JoinStart ==
    /\ pc = "join"
    /\ LET mesh == MeshObjects(objs, colls[col])
       IN  IF TooFew(mesh)
             THEN /\ ret' = IF Len(mesh) = 1 THEN mesh[1] ELSE None
                  /\ pc' = AfterJoin
                  /\ UNCHANGED << active, main, others, i, base0 >>
             ELSE /\ main' = MainBody(objs, mesh)
                  /\ others' = Operands(objs, mesh)
                  /\ active' = MainBody(objs, mesh)     \* set_active(main)
                  /\ i' = 1
                  /\ base0' = objs[MainBody(objs, mesh)].geom
                  /\ pc' = "add"
                  /\ UNCHANGED ret
    /\ UNCHANGED << objs, colls, unit, cfg, entry, col, bool_mod, before, steps,
                    log, pageY, runs, snap >>

\* main.modifiers.new(...); operation, object, solver.
JoinAddModifier ==
    /\ pc = "add"
    /\ i <= Len(others)
    /\ LET nm == UnionModName(objs[main].mods, objs[others[i]].name)
       IN  /\ objs' = [objs EXCEPT ![main].mods = NewBoolean(@, nm, others[i])]
           /\ bool_mod' = nm
    /\ before' = [geom |-> objs[main].geom, mods |-> objs[main].mods]
    /\ pc' = "apply"
    /\ UNCHANGED << colls, active, unit, cfg, entry, col, main, others, i, base0,
                    steps, log, ret, pageY, runs, snap >>

Step(ok) ==
    [operand |-> others[i], name |-> objs[others[i]].name,
     geom |-> objs[others[i]].geom, ok |-> ok]

\* A loop that loses an operand after each step.
NextOperand_Skips(k) == k + 2

\* The loop variable moves to the next operand.
NextOperand(k) == k + 1

\* bpy.ops.object.modifier_apply on the active object: the evaluated union
\* becomes its mesh and the modifier leaves the stack.
Applied_Replaces(o, target, nm) ==
    [o EXCEPT ![target].geom = o[ModifierNamed(o[target].mods, nm).object].geom,
              ![target].mods = WithoutModifier(@, nm)]

Applied(o, target, nm) ==
    [o EXCEPT ![target].geom = Union(@, o[ModifierNamed(o[target].mods, nm).object].geom),
              ![target].mods = WithoutModifier(@, nm)]

JoinApply ==
    /\ pc = "apply"
    /\ active # None
    /\ bool_mod \in ModNames(objs[active].mods)
    /\ objs' = Applied(objs, active, bool_mod)
    /\ steps' = Append(steps, Step(TRUE))
    /\ i' = NextOperand(i)
    /\ pc' = "add"
    /\ UNCHANGED << colls, active, unit, cfg, entry, col, main, others, bool_mod,
                    before, base0, log, ret, pageY, runs, snap >>

\* except Exception: print the warning and remove the modifier if it is
\* still on main.
Warned_Silent(l, otherName) == l

Warned(l, otherName) == Append(l, otherName)

\* A handler that leaves the failed modifier on the stack.
RolledBack_Keeps(o, target, nm) == o

RolledBack(o, target, nm) ==
    IF nm \in ModNames(o[target].mods)
      THEN [o EXCEPT ![target].mods = WithoutModifier(@, nm)]
      ELSE o

JoinApplyRaises ==
    /\ pc = "apply"
    /\ log' = Warned(log, objs[others[i]].name)
    /\ objs' = RolledBack(objs, main, bool_mod)
    /\ steps' = Append(steps, Step(FALSE))
    /\ i' = NextOperand(i)
    /\ pc' = "add"
    /\ UNCHANGED << colls, active, unit, cfg, entry, col, main, others, bool_mod,
                    before, base0, ret, pageY, runs, snap >>

\* A removal pass whose errors are all swallowed.
Released_Swallowed(o, ops) == o

\* "Remove the other objects after joining", main.name = "BibleKeyring", return main.
Released(o, ops) == RemoveObjects(o, Range(ops))

JoinFinish ==
    /\ pc = "add"
    /\ i > Len(others)
    /\ objs' = Rename(Released(objs, others), main, "BibleKeyring")
    /\ colls' = Unlink(colls, (DOMAIN objs) \ (DOMAIN Released(objs, others)))
    /\ ret' = main
    /\ pc' = AfterJoin
    /\ UNCHANGED << active, unit, cfg, entry, col, joinVars, pageY, runs, snap >>

-----------------------------------------------------------------------------
(* main, after join_all_parts *)

\* if final:
IsTruthy(final) == final # None

\* add_material, origin_set, scale to millimetres when the scene is in metres.
Finished(o, final, u) ==
    [o EXCEPT ![final].mat = @ + 1,
              ![final].origin = "ORIGIN_CENTER_OF_MASS",
              ![final].scaled = (u = "METERS")]

Contents(o, linked) ==
    [k \in DOMAIN linked |-> [name |-> o[linked[k]].name, type |-> o[linked[k]].type]]

Finishing ==
    /\ pc = "finishing"
    /\ IF IsTruthy(ret)
         THEN /\ objs' = Finished(objs, ret, unit)
              /\ active' = ret
         ELSE UNCHANGED << objs, active >>
    /\ snap' = IF runs = 1 THEN [taken |-> TRUE, contents |-> Contents(objs, colls[col])]
                           ELSE snap
    /\ pc' = "done"
    /\ UNCHANGED << colls, unit, cfg, entry, col, joinVars, ret, pageY, runs >>

\* The script is run again on the scene the last run left.
RunAgain ==
    /\ entry = "main"
    /\ pc \in { "done", "raised" }
    /\ runs < MaxRuns
    /\ runs' = runs + 1
    /\ pc' = "cleanup"
    /\ col' = NoName
    /\ main' = None
    /\ others' = << >>
    /\ i' = 0
    /\ bool_mod' = NoName
    /\ before' = NoStep
    /\ base0' = { }
    /\ steps' = << >>
    /\ log' = << >>
    /\ ret' = None
    /\ pageY' = << >>
    /\ UNCHANGED << objs, colls, active, unit, cfg, entry, snap >>

Next ==
    \/ CleanupExisting
    \/ CreateCollection
    \/ CreateBookBody
    \/ OperatorRaises
    \/ CreateSpine
    \/ CreateCarabinerLoop
    \/ LoopHoleRaises
    \/ CreateEmbossedText
    \/ CreatePageLines
    \/ JoinStart
    \/ JoinAddModifier
    \/ JoinApply
    \/ JoinApplyRaises
    \/ JoinFinish
    \/ Finishing
    \/ RunAgain

Spec == Init /\ [][Next]_vars

-----------------------------------------------------------------------------
(* Properties *)

InLoop == pc \in { "add", "apply" }

\* join_all_parts went through its loop and returned.
JoinReturned == pc \in { "finishing", "done", "returned" } /\ main # None

LastStep == steps[Len(steps)]

\* The operands of the plan, read off the collection: its mesh objects other
\* than the base, in the collection's order.
Plan == SelectSeq(colls[col], LAMBDA x : objs[x].type = "MESH" /\ x # main)

\* C1: when the boolean operation of a step fails, the base has after the
\* step the geometry and the modifier stack it had when the step began.
C1_Rollback ==
    (pc = "add" /\ steps # << >> /\ ~LastStep.ok)
        => /\ objs[main].geom = before.geom
           /\ objs[main].mods = before.mods

\* A failed step on a base that carries an older modifier and has already
\* absorbed an operand.
C1_Witness ==
    /\ pc = "add"
    /\ Len(steps) >= 2
    /\ steps[1].ok
    /\ ~LastStep.ok
    /\ before.mods # << >>
    /\ before.geom # base0

\* C2: the steps are attempted once each, in the order of the plan; a step
\* begins with no modifier of an earlier step pending; a failed step does not
\* stop the loop, which ends by returning the base.
C2_InOrderFold ==
    /\ InLoop =>
          /\ i \in 1..(Len(others) + 1)
          /\ Len(steps) = i - 1
          /\ others = Plan
          /\ \A k \in 1..Len(steps) : steps[k].operand = others[k]
          /\ ENABLED (JoinAddModifier \/ JoinApply \/ JoinApplyRaises \/ JoinFinish)
    /\ pc = "add" =>
          \A k \in DOMAIN objs[main].mods :
              objs[main].mods[k].object \notin Range(others)
    /\ JoinReturned =>
          /\ Len(steps) = Len(others)
          /\ \A k \in 1..Len(steps) : steps[k].operand = others[k]
          /\ ret = main
          /\ main \in DOMAIN objs

\* The loop has returned although its first step failed and a later one succeeded.
C2_Witness ==
    /\ JoinReturned
    /\ Len(steps) >= 3
    /\ ~steps[1].ok
    /\ steps[2].ok
    /\ ~steps[3].ok

UnionOf(S) == UNION S

\* C3: the returned solid is the base united with exactly the operands whose
\* step succeeded; it always contains the whole base.
C3_UnionOfMerged ==
    JoinReturned =>
        /\ objs[ret].geom =
              base0 \cup UnionOf({ steps[k].geom : k \in { j \in 1..Len(steps) : steps[j].ok } })
        /\ base0 \subseteq objs[ret].geom
        /\ \A k \in 1..Len(steps) :
              ~steps[k].ok => (steps[k].geom \cap objs[ret].geom) \subseteq base0

\* A run in which one operand was merged and another, with geometry, skipped.
C3_Witness ==
    /\ JoinReturned
    /\ \E j, k \in 1..Len(steps) :
          /\ steps[j].ok /\ steps[j].geom # { }
          /\ ~steps[k].ok /\ steps[k].geom # { }
    /\ base0 # { }

-----------------------------------------------------------------------------

\* C4 as stated: the operand of a step is released once the step is over,
\* no operand serves in two steps, and after the assembly the base is the
\* only object left in the collection.
C4_ReleasedAfterItsStep ==
    (InLoop \/ JoinReturned) =>
        /\ \A k \in 1..Len(steps) : steps[k].operand \notin DOMAIN objs
        /\ \A j, k \in 1..Len(steps) : j # k => steps[j].operand # steps[k].operand
        /\ (JoinReturned /\ entry = "main") => colls[col] = << ret >>

\* C4, amended: the operands are released together, after the last step.
\* While the loop runs every operand of the plan still exists; no operand
\* serves in two steps; once join_all_parts has returned no operand exists
\* or is linked anywhere, and in a run of main the base is the only object
\* of the collection when the finishing stage starts.
C4_ReleasedAfterLoop ==
    /\ InLoop => Range(others) \subseteq DOMAIN objs
    /\ (InLoop \/ JoinReturned) =>
          \A j, k \in 1..Len(steps) : j # k => steps[j].operand # steps[k].operand
    /\ JoinReturned =>
          /\ Range(others) \cap DOMAIN objs = { }
          /\ \A c \in DOMAIN colls : Range(colls[c]) \cap Range(others) = { }
    /\ (JoinReturned /\ entry = "main") => colls[col] = << ret >>

\* main's assembly has returned after four steps, one of them skipped.
C4_Witness ==
    /\ JoinReturned
    /\ entry = "main"
    /\ Len(steps) = 4
    /\ \E k \in 1..4 : ~steps[k].ok
    /\ \E k \in 1..4 : steps[k].ok

\* C5 as stated: every step of the plan leaves one record.
C5_OneStatusPerStep ==
    /\ InLoop => Len(log) = Len(steps)
    /\ JoinReturned => Len(log) = Len(others)

FailedNames ==
    LET failed == SelectSeq(steps, LAMBDA st : ~st.ok)
    IN  [k \in 1..Len(failed) |-> failed[k].name]

\* C5, amended: the only record is the warning printed for a failed step.
\* The warnings name exactly the operands whose boolean operation failed,
\* once each and in the order of the plan; a step that succeeded leaves no
\* record.
C5_WarningsNameTheSkipped ==
    (InLoop \/ JoinReturned) =>
        /\ log = FailedNames
        /\ Len(log) = Cardinality({ k \in 1..Len(steps) : ~steps[k].ok })

\* A step that failed between two that succeeded.
C5_Witness ==
    /\ JoinReturned
    /\ Len(steps) >= 3
    /\ steps[1].ok
    /\ ~steps[2].ok
    /\ steps[3].ok
    /\ Len(log) = 1

MeshCount == Cardinality({ x \in Range(colls[col]) : objs[x].type = "MESH" })

\* C6: with at most one mesh object in the collection join_all_parts returns
\* at once: the base (None when there is no mesh object) is returned as it
\* is, nothing is removed, no modifier is added or applied, nothing is logged.
C6_EmptyPlan ==
    [][ (pc = "join" /\ MeshCount <= 1) =>
            /\ objs' = objs
            /\ colls' = colls
            /\ steps' = steps
            /\ log' = log
            /\ pc' \in { "finishing", "returned" }
            /\ main' = None
            /\ IF MeshCount = 1
                 THEN ret' \in Range(colls[col]) /\ objs[ret'].type = "MESH"
                 ELSE ret' = None ]_vars

\* join_all_parts has returned the lone mesh object of the collection, with
\* its own name and its pending modifier.
C6_Witness ==
    /\ pc = "returned"
    /\ entry = "join"
    /\ main = None
    /\ ret # None
    /\ colls[col] = << ret >>
    /\ objs[ret].name = << "Cube", 0 >>
    /\ objs[ret].mods # << >>
    /\ steps = << >>

InvalidParameter == cfg.count <= 0 \/ cfg.depth <= 0

\* C8 as stated: with an invalid dimension parameter the run ends during
\* primitive construction: join_all_parts is not entered, no step is
\* executed, no final solid is produced.
C8_InvalidParameterAborts ==
    (entry = "main" /\ InvalidParameter) =>
        /\ pc \notin { "join", "add", "apply", "finishing", "done" }
        /\ steps = << >>
        /\ ret = None

SpanStart == COVER_THICKNESS - (cfg.depth \div 2)
SpanEnd == (cfg.depth \div 2) - COVER_THICKNESS
Abs(x) == IF x < 0 THEN 0 - x ELSE x

\* C9: slab k of count is centred at spanStart + k * (spanEnd - spanStart) /
\* (count + 1), strictly inside the span, and with the configured count,
\* span and thickness no two slabs overlap along the axis.
C9_Placement ==
    /\ (entry = "main" /\ pc \in { "join", "add", "apply", "finishing", "done" }
          /\ cfg.count >= 1) => Len(pageY) = cfg.count
    /\ \A k \in DOMAIN pageY :
          /\ pageY[k].den = cfg.count + 1
          /\ pageY[k].num = SpanStart * (cfg.count + 1) + k * (SpanEnd - SpanStart)
          /\ SpanStart < SpanEnd =>
                /\ SpanStart * pageY[k].den < pageY[k].num
                /\ pageY[k].num < SpanEnd * pageY[k].den
          /\ (cfg.count = PAGE_LINE_COUNT /\ cfg.depth = BOOK_DEPTH) =>
                \A j \in DOMAIN pageY :
                    j # k => Abs(pageY[j].num - pageY[k].num)
                                 > PAGE_LINE_THICKNESS * pageY[k].den

\* The configured twelve slabs have been placed.
C9_Witness ==
    /\ Len(pageY) = PAGE_LINE_COUNT
    /\ cfg.depth = BOOK_DEPTH
    /\ pc = "join"

KeyringCollections == { c \in DOMAIN colls : c[1] = COLLECTION_NAME }

OutsideNames == { objs[x].name : x \in (DOMAIN objs) \ Range(colls[col]) }

\* The first suffix of "BibleKeyring" that no object outside the collection
\* bears: 0 is the plain name, 1 is ".001", ...
FirstFreeSuffix ==
    CHOOSE n \in 0..Cardinality(OutsideNames) :
        /\ << "BibleKeyring", n >> \notin OutsideNames
        /\ \A m \in 0..(n - 1) : << "BibleKeyring", m >> \in OutsideNames

MainDone == entry = "main" /\ pc = "done"

\* C10 as stated: whatever the scene was, after main the collection
\* BibleKeyring exists once and holds one object, named BibleKeyring, and a
\* second run leaves the same contents as the first.
C10_AnyPriorScene ==
    MainDone =>
        /\ KeyringCollections = { << COLLECTION_NAME, 0 >> }
        /\ colls[<< COLLECTION_NAME, 0 >>] = << ret >>
        /\ objs[ret].name = << "BibleKeyring", 0 >>
        /\ (runs >= 2 /\ snap.taken) => Contents(objs, colls[col]) = snap.contents

\* C10, amended: the name of the final solid is BibleKeyring when no object
\* outside the collection bears that name, and otherwise BibleKeyring with
\* the first numeric suffix (.001, .002, ...) that no object outside the
\* collection bears. The rest holds from every prior scene.
C10_Rerun ==
    MainDone =>
        /\ KeyringCollections = { << COLLECTION_NAME, 0 >> }
        /\ col = << COLLECTION_NAME, 0 >>
        /\ colls[<< COLLECTION_NAME, 0 >>] = << ret >>
        /\ objs[ret].name = << "BibleKeyring", FirstFreeSuffix >>
        /\ (runs >= 2 /\ snap.taken) => Contents(objs, colls[col]) = snap.contents

\* The second of two complete runs in a scene where BibleKeyring and
\* BibleKeyring.001 lie outside the collection: the solid is BibleKeyring.002.
C10_Witness ==
    /\ MainDone
    /\ runs = 2
    /\ snap.taken
    /\ \E k \in 1..Len(steps) : ~steps[k].ok
    /\ objs[ret].name = << "BibleKeyring", 2 >>

=============================================================================
